---- MODULE Spec2Model ----
(***************************************************************************)
(* The interactive controller of fm: the bubbletea model of src/update.go  *)
(* and its Update function, together with the parts of the bubbles         *)
(* viewport and textinput components that Update calls; and the tree       *)
(* preview pane of internal/treepreview, a component with a state and an   *)
(* Update of its own (TreeSpec).                                           *)
(*                                                                         *)
(* Fields that are only rendered (ScreenWidth, Viewport.Width,             *)
(* Viewport.YPosition, TextInput.Placeholder/Prompt) are never read by     *)
(* Update and are left out of the state.                                   *)
(***************************************************************************)
EXTENDS Integers, Sequences, FiniteSets, TLC

VARIABLES
    m,        \* the model value held by the bubbletea program
    msg,      \* the message handled by the last call of Update
    cmd,      \* the tea.Cmd returned by the last call of Update
    fsCalls,  \* the filesystem.* calls made by the last call of Update, in order
    status,   \* "running", "quit" (tea.Quit was returned) or "panicked"
    tree,     \* the treepreview.Model value
    treeMsg   \* the message handled by the last call of treepreview's Update

vars == <<m, msg, cmd, fsCalls, status, tree, treeMsg>>
controllerVars == <<m, msg, cmd, fsCalls, status>>
treeVars == <<tree, treeMsg>>

----------------------------------------------------------------------------
(* Bounds of the model *)

\* the directory entries that exist are 1..MaxFiles
MaxFiles == 3
\* the text typed into the input is at most MaxLen runes long
MaxLen == 1
\* a terminal is 1..MaxHeight rows high
MaxHeight == 2
\* the number of lines of components.Help()
HelpLines == 3

----------------------------------------------------------------------------
(* Directory entries and listings (fs.FileInfo, filesystem.GetDirectoryListing) *)

Entries == 1 .. MaxFiles

\* fs.FileInfo.IsDir: the even entries are directories
IsDir(e) == e % 2 = 0

\* What filesystem.GetDirectoryListing can return: the directory holds the
\* entries 1..MaxFiles, ordered by name, less some removed from one end.
Listings ==
    { [i \in 1 .. n |-> i] : n \in 0 .. MaxFiles } \cup
    { [i \in 1 .. n |-> MaxFiles - n + i] : n \in 0 .. MaxFiles }

\* One call of a function of package filesystem.  target is the entry the
\* call names (0 when the path is the literal dir), arg the text argument,
\* ok tells whether the call succeeded.
FsCall(op, target, dir, arg) ==
    [op |-> op, target |-> target, dir |-> dir, arg |-> arg, ok |-> TRUE]

\* The outcome of a mutating call: ok, or a failure, which the call site of
\* Update has no way to see (the calls are statements, their results dropped).
Outcome(call, ok) == [call EXCEPT !.ok = ok]

GetDirectoryListing(target, dir) == FsCall("GetDirectoryListing", target, dir, <<>>)

MutatingOps == {"RenameDirOrFile", "MoveDir", "CopyFile", "DeleteDirectory", "DeleteFile"}
DeleteOps == {"DeleteDirectory", "DeleteFile"}

\* The commands that run a mutating filesystem call outside Update and
\* answer with a listing message.
MutatingCmds == {"renameFileOrDir", "moveDir", "moveFile", "deleteDir", "deleteFile"}

----------------------------------------------------------------------------
(* Keys *)

QuitKeys == {"q", "ctrl+c"}
UpKeys == {"up", "k"}
DownKeys == {"down", "j"}
SelectKeys == {"enter", " "}
ParentKeys == {"h", "backspace"}
\* keys that match no case of the switch
OtherKeys == {"y"}

\* tea.KeyRunes: the keys a focused text input inserts
Runes == {"k", "j", "h", "m", "r", "d", "i", "y", " "}

\* The keys pressed in the model.  "j" and "h" are left out: like "k" they
\* are a navigation key when the input is blurred and a rune when it is
\* focused, the cases "down" and "backspace" cover the first and "k" the second.
Keyboard ==
    {"q", "ctrl+c", "up", "k", "down", "enter", " ", "backspace",
     "m", "r", "d", "i", "esc", "y"}

----------------------------------------------------------------------------
(* bubbles/viewport *)

Min(a, b) == IF a < b THEN a ELSE b
Max(a, b) == IF a > b THEN a ELSE b

AtTop(vp) == vp.YOffset <= 0
AtBottom(vp) == vp.YOffset >= vp.lines - 1 - vp.Height

LineUp(vp, n) ==
    IF AtTop(vp) \/ n = 0
    THEN vp
    ELSE [vp EXCEPT !.YOffset = Max(vp.YOffset - Min(n, vp.YOffset), 0)]

LineDown(vp, n) ==
    IF AtBottom(vp) \/ n = 0
    THEN vp
    ELSE LET maxDelta == (vp.lines - 1) - (vp.YOffset + vp.Height)
         IN [vp EXCEPT !.YOffset =
                Min(vp.YOffset + Min(n, maxDelta), vp.lines - 1 - vp.Height)]

GotoBottom(vp) == [vp EXCEPT !.YOffset = Max(vp.lines - 1 - vp.Height, 0)]

\* nlines is the number of lines of the new content
SetContent(vp, nlines) ==
    LET v == [vp EXCEPT !.lines = nlines]
    IN IF v.YOffset > nlines - 1 THEN GotoBottom(v) ELSE v

\* viewport.Model{Width: w, Height: h}
NewViewport(h) == [Height |-> h, YOffset |-> 0, lines |-> 0]

----------------------------------------------------------------------------
(* bubbles/textinput *)

Focused(ti) == ti.focus
Value(ti) == ti.value
Focus(ti) == [ti EXCEPT !.focus = TRUE]
Blur(ti) == [ti EXCEPT !.focus = FALSE]

\* textinput.Model.Update for a key: nothing unless focused; a rune is
\* inserted at the end, backspace removes the last rune.
TextInputUpdate(ti, k) ==
    IF ~ti.focus THEN ti
    ELSE IF k = "backspace"
         THEN [ti EXCEPT !.value =
                 IF Len(@) = 0 THEN @ ELSE SubSeq(@, 1, Len(@) - 1)]
    ELSE IF k \in Runes
         THEN [ti EXCEPT !.value = Append(@, k)]
    ELSE ti

----------------------------------------------------------------------------
(* update.go *)

\* fixViewport bringing the cursor into view at once instead of line by line
fixViewport_Jump(mm, moveCursor) ==
    LET top == mm.Viewport.YOffset
        bottom == mm.Viewport.Height + mm.Viewport.YOffset - 1
    IN IF moveCursor
       THEN IF mm.Cursor < top THEN [mm EXCEPT !.Cursor = top]
            ELSE IF mm.Cursor > bottom THEN [mm EXCEPT !.Cursor = bottom]
            ELSE mm
       ELSE IF mm.Cursor < top THEN [mm EXCEPT !.Viewport.YOffset = mm.Cursor]
            ELSE IF mm.Cursor > bottom
            THEN [mm EXCEPT !.Viewport.YOffset = @ + (mm.Cursor - bottom)]
            ELSE mm

fixViewport(mm, moveCursor) ==
    LET top == mm.Viewport.YOffset
        bottom == mm.Viewport.Height + mm.Viewport.YOffset - 1
    IN IF moveCursor
       THEN IF mm.Cursor < top THEN [mm EXCEPT !.Cursor = top]
            ELSE IF mm.Cursor > bottom THEN [mm EXCEPT !.Cursor = bottom]
            ELSE mm
       ELSE IF mm.Cursor < top THEN [mm EXCEPT !.Viewport = LineUp(@, 1)]
            ELSE IF mm.Cursor > bottom THEN [mm EXCEPT !.Viewport = LineDown(@, 1)]
            ELSE mm

\* fixCursor clamping at the ends instead of wrapping
fixCursor_Clamp(mm) ==
    IF mm.Cursor > Len(mm.Files) - 1 THEN [mm EXCEPT !.Cursor = Len(mm.Files) - 1]
    ELSE IF mm.Cursor < 0 THEN [mm EXCEPT !.Cursor = 0]
    ELSE mm

fixCursor(mm) ==
    IF mm.Cursor > Len(mm.Files) - 1 THEN [mm EXCEPT !.Cursor = 0]
    ELSE IF mm.Cursor < 0 THEN [mm EXCEPT !.Cursor = Len(mm.Files) - 1]
    ELSE mm

\* treepreview.NewModel: no files, cursor 0, a zero viewport
NewModel(isActive) ==
    [Viewport |-> NewViewport(0),
     Files |-> <<>>,
     Cursor |-> 0,
     IsActive |-> isActive]

createInitialModel ==
    [Files |-> <<>>,
     Cursor |-> 0,
     Viewport |-> NewViewport(0),
     TextInput |-> [value |-> <<>>, focus |-> FALSE],
     ScreenHeight |-> 0,
     Move |-> FALSE,
     Rename |-> FALSE,
     Delete |-> FALSE,
     ShowHelp |-> FALSE]

Init ==
    /\ m = createInitialModel
    /\ msg = "none"
    /\ cmd = "nil"
    /\ fsCalls = <<>>
    /\ status = "running"
    /\ tree = NewModel(TRUE)
    /\ treeMsg = "none"

\* m.Files[m.Cursor] is a valid index expression
InRange(mm) == 0 <= mm.Cursor /\ mm.Cursor < Len(mm.Files)

\* The tail of Update: m.TextInput.Update(msg), return m, tea.Batch(cmds...)
Return(mm, k, calls) ==
    /\ Len(TextInputUpdate(mm.TextInput, k).value) <= MaxLen
    /\ m' = [mm EXCEPT !.TextInput = TextInputUpdate(@, k)]
    /\ msg' = k
    /\ cmd' = "Batch"
    /\ fsCalls' = calls
    /\ status' = "running"
    /\ UNCHANGED treeVars

\* return m, nil
ReturnNil(mm, k, calls) ==
    /\ m' = mm
    /\ msg' = k
    /\ cmd' = "nil"
    /\ fsCalls' = calls
    /\ status' = "running"
    /\ UNCHANGED treeVars

\* An index out of range: the Go runtime panics and the program ends.
Panic(k) ==
    /\ m' = m
    /\ msg' = k
    /\ cmd' = "nil"
    /\ fsCalls' = <<>>
    /\ status' = "panicked"
    /\ UNCHANGED treeVars

\* Quit checked after the prompt: a focused input takes the key
Quit_Routed(k) ==
    /\ status = "running"
    /\ k \in QuitKeys
    /\ IF Focused(m.TextInput)
       THEN Return(m, k, <<>>)
       ELSE /\ m' = m
            /\ msg' = k
            /\ cmd' = "Quit"
            /\ fsCalls' = <<>>
            /\ status' = "quit"
            /\ UNCHANGED treeVars

Quit(k) ==
    /\ status = "running"
    /\ k \in QuitKeys
    /\ m' = m
    /\ msg' = k
    /\ cmd' = "Quit"
    /\ fsCalls' = <<>>
    /\ status' = "quit"
    /\ UNCHANGED treeVars

FileStatus(files) ==
    /\ status = "running"
    /\ ReturnNil([m EXCEPT !.Files = files], "fileStatus", <<>>)

\* the resize handler also sending the cursor back to the first entry
WindowSizeMsg_ResetCursor(height) ==
    /\ status = "running"
    /\ Return([m EXCEPT !.ScreenHeight = height,
                        !.Viewport = NewViewport(height - 1),
                        !.Cursor = 0],
              "WindowSizeMsg", <<>>)

WindowSizeMsg(height) ==
    /\ status = "running"
    /\ Return([m EXCEPT !.ScreenHeight = height,
                        !.Viewport = NewViewport(height - 1)],
              "WindowSizeMsg", <<>>)

\* case "up", "k" without the !m.TextInput.Focused() guard
KeyUp_Unguarded(k) ==
    /\ status = "running"
    /\ k \in UpKeys
    /\ Return(fixViewport(fixCursor([m EXCEPT !.Cursor = @ - 1]), FALSE), k, <<>>)

KeyUp(k) ==
    /\ status = "running"
    /\ k \in UpKeys
    /\ Return(IF ~Focused(m.TextInput)
              THEN fixViewport(fixCursor([m EXCEPT !.Cursor = @ - 1]), FALSE)
              ELSE m,
              k, <<>>)

KeyDown(k) ==
    /\ status = "running"
    /\ k \in DownKeys
    /\ Return(IF ~Focused(m.TextInput)
              THEN fixViewport(fixCursor([m EXCEPT !.Cursor = @ + 1]), FALSE)
              ELSE m,
              k, <<>>)

\* Select handing the rename to a command instead of calling the filesystem
Select_Dispatch(k, listing) ==
    LET sel == m.Files[m.Cursor + 1]    \* Go slices count from 0
        val == Value(m.TextInput)
        relist == GetDirectoryListing(0, "./")
    IN \E ok \in BOOLEAN :
       IF IsDir(sel) /\ ~Focused(m.TextInput)
       THEN Return([m EXCEPT !.Files = listing, !.Cursor = 0],
                   k, <<GetDirectoryListing(sel, "")>>)
       ELSE IF m.Rename
       THEN /\ listing = m.Files
            /\ m' = [m EXCEPT !.TextInput = Blur(@), !.Rename = FALSE]
            /\ msg' = k
            /\ cmd' = "renameFileOrDir"
            /\ fsCalls' = <<>>
            /\ status' = "running"
            /\ UNCHANGED treeVars
       ELSE IF m.Move
       THEN Return([m EXCEPT !.Files = listing,
                             !.TextInput = Blur(@),
                             !.Move = FALSE],
                   k, <<Outcome(FsCall(IF IsDir(sel) THEN "MoveDir" ELSE "CopyFile",
                                       sel, "", val), ok), relist>>)
       ELSE IF m.Delete
       THEN Return([m EXCEPT !.Files = listing,
                             !.TextInput = Blur(@),
                             !.Delete = FALSE],
                   k,
                   IF val = <<"y">>
                   THEN <<Outcome(FsCall(IF IsDir(sel) THEN "DeleteDirectory"
                                                         ELSE "DeleteFile",
                                         sel, "", <<>>), ok), relist>>
                   ELSE <<relist>>)
       ELSE /\ listing = m.Files
            /\ ReturnNil(m, k, <<>>)

\* case "enter", " ": the branch taken once m.Files[m.Cursor] has been read
Select(k, listing) ==
    LET sel == m.Files[m.Cursor + 1]    \* Go slices count from 0
        val == Value(m.TextInput)
        relist == GetDirectoryListing(0, "./")
    IN \E ok \in BOOLEAN :
       IF IsDir(sel) /\ ~Focused(m.TextInput)
       THEN Return([m EXCEPT !.Files = listing, !.Cursor = 0],
                   k, <<GetDirectoryListing(sel, "")>>)
       ELSE IF m.Rename
       THEN Return([m EXCEPT !.Files = listing,
                             !.TextInput = Blur(@),
                             !.Rename = FALSE],
                   k, <<Outcome(FsCall("RenameDirOrFile", sel, "", val), ok), relist>>)
       ELSE IF m.Move
       THEN Return([m EXCEPT !.Files = listing,
                             !.TextInput = Blur(@),
                             !.Move = FALSE],
                   k, <<Outcome(FsCall(IF IsDir(sel) THEN "MoveDir" ELSE "CopyFile",
                                       sel, "", val), ok), relist>>)
       ELSE IF m.Delete
       THEN Return([m EXCEPT !.Files = listing,
                             !.TextInput = Blur(@),
                             !.Delete = FALSE],
                   k,
                   IF val = <<"y">>
                   THEN <<Outcome(FsCall(IF IsDir(sel) THEN "DeleteDirectory"
                                                         ELSE "DeleteFile",
                                         sel, "", <<>>), ok), relist>>
                   ELSE <<relist>>)
       ELSE /\ listing = m.Files
            /\ ReturnNil(m, k, <<>>)

KeySelect(k) ==
    /\ status = "running"
    /\ k \in SelectKeys
    /\ IF InRange(m)
       THEN \E listing \in Listings : Select(k, listing)
       ELSE Panic(k)

\* the parent key removing the selected entry on its way up
KeyParent_Remove(k) ==
    /\ status = "running"
    /\ k \in ParentKeys
    /\ IF ~Focused(m.TextInput)
       THEN \E listing \in Listings :
              Return([m EXCEPT !.Cursor = 0, !.Files = listing],
                     k, <<FsCall("DeleteFile", 0, "./", <<>>),
                          GetDirectoryListing(0, "..")>>)
       ELSE Return(m, k, <<>>)

KeyParent(k) ==
    /\ status = "running"
    /\ k \in ParentKeys
    /\ IF ~Focused(m.TextInput)
       THEN \E listing \in Listings :
              Return([m EXCEPT !.Cursor = 0, !.Files = listing],
                     k, <<GetDirectoryListing(0, "..")>>)
       ELSE Return(m, k, <<>>)

\* the move key opening its prompt whether or not a prompt is open
KeyMove_Unguarded ==
    /\ status = "running"
    /\ Return([m EXCEPT !.Move = TRUE, !.TextInput = Focus(@)], "m", <<>>)

KeyMove ==
    /\ status = "running"
    /\ Return(IF ~Focused(m.TextInput)
              THEN [m EXCEPT !.Move = TRUE, !.TextInput = Focus(@)]
              ELSE m,
              "m", <<>>)

KeyRename ==
    /\ status = "running"
    /\ Return(IF ~Focused(m.TextInput)
              THEN [m EXCEPT !.Rename = TRUE, !.TextInput = Focus(@)]
              ELSE m,
              "r", <<>>)

KeyDelete ==
    /\ status = "running"
    /\ Return(IF ~Focused(m.TextInput)
              THEN [m EXCEPT !.Delete = TRUE, !.TextInput = Focus(@)]
              ELSE m,
              "d", <<>>)

KeyHelp ==
    /\ status = "running"
    /\ Return([m EXCEPT !.Viewport = SetContent(@, HelpLines), !.ShowHelp = TRUE],
              "i", <<>>)

\* esc leaving the help screen up
KeyEsc_KeepHelp ==
    /\ status = "running"
    /\ Return([m EXCEPT !.Move = FALSE,
                        !.Rename = FALSE,
                        !.Delete = FALSE,
                        !.TextInput = Blur(@)],
              "esc", <<>>)

KeyEsc ==
    /\ status = "running"
    /\ Return([m EXCEPT !.Move = FALSE,
                        !.Rename = FALSE,
                        !.Delete = FALSE,
                        !.ShowHelp = FALSE,
                        !.TextInput = Blur(@)],
              "esc", <<>>)

KeyOther(k) ==
    /\ status = "running"
    /\ k \in OtherKeys
    /\ Return(m, k, <<>>)

Next ==
    \/ \E k \in QuitKeys \cap Keyboard : Quit(k)
    \/ \E files \in Listings : FileStatus(files)
    \/ \E height \in 1 .. MaxHeight : WindowSizeMsg(height)
    \/ \E k \in UpKeys \cap Keyboard : KeyUp(k)
    \/ \E k \in DownKeys \cap Keyboard : KeyDown(k)
    \/ \E k \in SelectKeys \cap Keyboard : KeySelect(k)
    \/ \E k \in ParentKeys \cap Keyboard : KeyParent(k)
    \/ KeyMove
    \/ KeyRename
    \/ KeyDelete
    \/ KeyHelp
    \/ KeyEsc
    \/ \E k \in OtherKeys \cap Keyboard : KeyOther(k)

Spec == Init /\ [][Next]_vars


----------------------------------------------------------------------------
(* internal/treepreview *)

\* Rows of the terminal taken by the pane's border (one above, one below)
\* and by the status bar.
VerticalBorderSize == 2
StatusbarHeight == 1

MouseTypes == {"MouseWheelUp", "MouseWheelDown", "MouseLeft"}
WheelTypes == {"MouseWheelUp", "MouseWheelDown"}
TreeKeys == UpKeys \cup DownKeys \cup OtherKeys \cup {"enter"}

\* Model.SetContent: one row per file, each ended by a newline, so the
\* viewport gets len(files) + 1 lines.
TreeSetContent(tp, files) ==
    [tp EXCEPT !.Files = files,
               !.Viewport = SetContent(@, Len(files) + 1)]

SetSize(tp, height) ==
    [tp EXCEPT !.Viewport.Height = height - VerticalBorderSize - StatusbarHeight]

\* return m, tea.Batch(cmds...) of treepreview's Update
TreeReturn(tp, message) ==
    /\ tree' = tp
    /\ treeMsg' = message
    /\ UNCHANGED controllerVars

SetIsActive(isActive) ==
    /\ isActive \in BOOLEAN
    /\ TreeReturn([tree EXCEPT !.IsActive = isActive], "SetIsActive")

PreviewDirectoryListingMsg(files) ==
    /\ files \in Listings
    /\ TreeReturn(TreeSetContent(tree, files), "PreviewDirectoryListingMsg")

TreeWindowSizeMsg(height) ==
    /\ height \in Int
    /\ LET sized == SetSize(tree, height)
       IN TreeReturn(TreeSetContent(sized, sized.Files), "WindowSizeMsg")

\* the wheel scrolling the pane whether or not it is active
MouseMsg_Unguarded(type) ==
    /\ type \in MouseTypes
    /\ TreeReturn(IF type = "MouseWheelUp"
                  THEN TreeSetContent([tree EXCEPT !.Viewport = LineUp(@, 1)], tree.Files)
                  ELSE IF type = "MouseWheelDown"
                  THEN TreeSetContent([tree EXCEPT !.Viewport = LineDown(@, 1)], tree.Files)
                  ELSE tree,
                  type)

MouseMsg(type) ==
    /\ type \in MouseTypes
    /\ TreeReturn(IF type = "MouseWheelUp" /\ tree.IsActive
                  THEN TreeSetContent([tree EXCEPT !.Viewport = LineUp(@, 1)], tree.Files)
                  ELSE IF type = "MouseWheelDown" /\ tree.IsActive
                  THEN TreeSetContent([tree EXCEPT !.Viewport = LineDown(@, 1)], tree.Files)
                  ELSE tree,
                  type)

TreeKeyMsg(k) ==
    /\ k \in TreeKeys
    /\ TreeReturn(IF k \in UpKeys /\ tree.IsActive
                  THEN TreeSetContent([tree EXCEPT !.Viewport = LineUp(@, 1)], tree.Files)
                  ELSE IF k \in DownKeys /\ tree.IsActive
                  THEN TreeSetContent([tree EXCEPT !.Viewport = LineDown(@, 1)], tree.Files)
                  ELSE tree,
                  k)

TreeInit ==
    /\ m = createInitialModel
    /\ msg = "none"
    /\ cmd = "nil"
    /\ fsCalls = <<>>
    /\ status = "running"
    /\ \E isActive \in BOOLEAN : tree = NewModel(isActive)
    /\ treeMsg = "none"

TreeNext ==
    \/ \E isActive \in BOOLEAN : SetIsActive(isActive)
    \/ \E files \in Listings : PreviewDirectoryListingMsg(files)
    \/ \E height \in (VerticalBorderSize + StatusbarHeight) ..
                     (VerticalBorderSize + StatusbarHeight + MaxHeight) :
          TreeWindowSizeMsg(height)
    \/ \E type \in MouseTypes : MouseMsg(type)
    \/ \E k \in TreeKeys : TreeKeyMsg(k)

TreeSpec == TreeInit /\ [][TreeNext]_vars

----------------------------------------------------------------------------
(* Properties *)

NavKeys == UpKeys \cup DownKeys
PromptKeys == {"m", "r", "d"}
InPrompt(mm) == Focused(mm.TextInput) /\ (mm.Move \/ mm.Rename \/ mm.Delete)
CallsOf(calls, ops) == { i \in DOMAIN calls : calls[i].op \in ops }

\* C1: whenever the listing is non-empty, the cursor is an index of it:
\* 0 <= Cursor < len(Files).
C1_CursorInRange ==
    Len(m.Files) > 0 => (0 <= m.Cursor /\ m.Cursor < Len(m.Files))

\* C2: after an up/down navigation event on a non-empty listing shown in a
\* viewport of height >= 1, the cursor lies in the visible band:
\* YOffset <= Cursor <= YOffset + Height - 1.
C2_CursorVisible ==
    ( /\ msg \in NavKeys
      /\ ~Focused(m.TextInput)
      /\ Len(m.Files) > 0
      /\ m.Viewport.Height >= 1 )
    => ( /\ m.Viewport.YOffset <= m.Cursor
         /\ m.Cursor <= m.Viewport.YOffset + m.Viewport.Height - 1 )

\* C3: with the input blurred and the cursor on an entry of a listing of
\* length n, up at 0 yields n-1, down at n-1 yields 0, and otherwise up
\* and down change the cursor by exactly -1 and +1.
C3_CircularNavigation ==
    [][ (status = "running" /\ ~Focused(m.TextInput) /\ InRange(m))
        => LET n == Len(m.Files)
           IN /\ msg' \in UpKeys =>
                    m'.Cursor = IF m.Cursor = 0 THEN n - 1 ELSE m.Cursor - 1
              /\ msg' \in DownKeys =>
                    m'.Cursor = IF m.Cursor = n - 1 THEN 0 ELSE m.Cursor + 1 ]_vars

\* C3 witness: an up event has wrapped to the last entry of a full listing.
C3_Witness ==
    /\ msg \in UpKeys
    /\ ~Focused(m.TextInput)
    /\ Len(m.Files) = MaxFiles
    /\ m.Cursor = MaxFiles - 1

\* C4: Update never reads Files[Cursor] with the cursor outside the listing
\* (no index-out-of-range panic), and on an empty listing up/down leave the
\* cursor at 0.
C4_ReadsGuarded ==
    /\ status # "panicked"
    /\ (msg \in NavKeys /\ Len(m.Files) = 0) => m.Cursor = 0

\* C5: a filesystem delete is invoked only by a commit in delete mode whose
\* buffer value is exactly "y"; a delete-mode commit with any other value
\* invokes no delete, only re-lists the current directory, and leaves
\* delete mode.
C5_DeleteOnlyOnYes ==
    [][ /\ CallsOf(fsCalls', DeleteOps) # {} =>
            ( /\ msg' \in SelectKeys
              /\ m.Delete
              /\ Focused(m.TextInput)
              /\ Value(m.TextInput) = <<"y">> )
        /\ ( /\ status = "running"
             /\ msg' \in SelectKeys
             /\ m.Delete
             /\ Focused(m.TextInput)
             /\ Value(m.TextInput) # <<"y">> ) =>
            ( /\ fsCalls' = <<GetDirectoryListing(0, "./")>>
              /\ ~m'.Delete
              /\ ~Focused(m'.TextInput) ) ]_vars

\* The first half of C5 alone: deletes happen only on a "y" commit.
DeleteRequiresYes ==
    [][ CallsOf(fsCalls', DeleteOps) # {} =>
            ( /\ msg' \in SelectKeys
              /\ m.Delete
              /\ Focused(m.TextInput)
              /\ Value(m.TextInput) = <<"y">> ) ]_vars

\* C6: when a move, rename or delete key pressed with the input blurred has
\* been processed, the input buffer is empty.
C6_PromptStartsEmpty ==
    [][ ( /\ status = "running"
          /\ ~Focused(m.TextInput)
          /\ msg' \in PromptKeys )
        => Value(m'.TextInput) = <<>> ]_vars

\* C7: from a prompt mode over a non-empty listing, processing enter or esc
\* yields Browse: Move, Rename and Delete false and the input blurred.
C7_PromptLeavesToBrowse ==
    [][ ( /\ status = "running"
          /\ InPrompt(m)
          /\ Len(m.Files) > 0
          /\ msg' \in {"enter", "esc"} )
        => ( /\ status' = "running"
             /\ ~m'.Move /\ ~m'.Rename /\ ~m'.Delete
             /\ ~Focused(m'.TextInput) ) ]_vars

\* C8: after a prompt is left by enter or esc the input buffer is empty.
C8_BufferClearedOnExit ==
    [][ ( /\ status = "running"
          /\ InPrompt(m)
          /\ msg' \in {"enter", "esc"}
          /\ ~Focused(m'.TextInput) )
        => Value(m'.TextInput) = <<>> ]_vars

C10_ListingResetsCursor ==
    msg = "fileStatus" => (m.Cursor = 0 /\ m.Viewport.YOffset = 0)

\* C11: a resize (WindowSizeMsg) changes only the screen dimensions and the
\* viewport: Cursor, the listing, Move, Rename, Delete, ShowHelp and the
\* text input (focus and value) are as before.
C11_ResizeFrame ==
    [][ msg' = "WindowSizeMsg"
        => m' = [m EXCEPT !.ScreenHeight = m'.ScreenHeight,
                          !.Viewport = m'.Viewport] ]_vars

\* C11 witness: a resize handled inside a prompt with the cursor off the
\* first entry.
C11_Witness ==
    /\ msg = "WindowSizeMsg"
    /\ InPrompt(m)
    /\ m.Cursor > 0
    /\ m.Viewport.Height >= 1

\* C12: at most one of Move, Rename, Delete and ShowHelp is true.
C12_OneMode ==
    Cardinality({ f \in {"Move", "Rename", "Delete", "ShowHelp"} : m[f] }) <= 1

\* C13: while the input is focused no key navigates: every key message
\* leaves Cursor and the viewport offset as they were, and neither the
\* selected directory nor the parent directory is listed.
C13_NoNavigationInPrompt ==
    [][ ( /\ status = "running"
          /\ Focused(m.TextInput)
          /\ msg' \in Keyboard )
        => ( /\ m'.Cursor = m.Cursor
             /\ m'.Viewport.YOffset = m.Viewport.YOffset
             /\ \A i \in CallsOf(fsCalls', {"GetDirectoryListing"}) :
                   fsCalls'[i] = GetDirectoryListing(0, "./")
             /\ msg' \in NavKeys \cup ParentKeys => m'.Files = m.Files ) ]_vars

\* C13 witness: an up key handled inside a prompt over a listing of several
\* entries, where it would have moved the cursor.
C13_Witness ==
    /\ msg \in UpKeys
    /\ InPrompt(m)
    /\ Len(m.Files) >= 2
    /\ InRange(m)

\* C14: rename end to end: the rename key pressed with the input blurred
\* opens the rename prompt with nothing typed yet, every rune typed in the
\* prompt is appended to the buffer, and enter calls RenameDirOrFile with
\* exactly (selected entry, buffer), re-lists and returns to Browse; so the
\* new name is exactly the text typed after the prompt opened.
C14_RenameEndToEnd ==
    [][ /\ ( /\ status = "running"
             /\ ~Focused(m.TextInput)
             /\ msg' = "r" )
           => ( /\ m'.Rename
                /\ Focused(m'.TextInput)
                /\ Value(m'.TextInput) = <<>> )
        /\ ( /\ status = "running"
             /\ m.Rename
             /\ Focused(m.TextInput)
             /\ msg' \in Runes \ SelectKeys )
           => Value(m'.TextInput) = Append(Value(m.TextInput), msg')
        /\ ( /\ status = "running"
             /\ m.Rename
             /\ Focused(m.TextInput)
             /\ msg' = "enter" )
           => ( /\ InRange(m)
                /\ Len(fsCalls') = 2
                /\ fsCalls'[1].op = "RenameDirOrFile"
                /\ fsCalls'[1].target = m.Files[m.Cursor + 1]
                /\ fsCalls'[1].arg = Value(m.TextInput)
                /\ fsCalls'[2] = GetDirectoryListing(0, "./")
                /\ ~m'.Rename /\ ~m'.Move /\ ~m'.Delete
                /\ ~Focused(m'.TextInput) ) ]_vars

\* C15: when a filesystem job fails the previous listing is kept, the
\* failure is recorded in the model and the controller is in Browse mode.
C15_FailureKeptAndReported ==
    [][ (\E i \in DOMAIN fsCalls' : ~fsCalls'[i].ok)
        => ( /\ m'.Files = m.Files
             /\ "Failure" \in DOMAIN m'
             /\ ~m'.Rename /\ ~m'.Move /\ ~m'.Delete
             /\ ~Focused(m'.TextInput) ) ]_vars

\* C16: after select on a directory in Browse, or the parent-directory key,
\* (the two steps that list another directory), Cursor and the viewport's
\* YOffset are both 0.
C16_NewDirectoryResets ==
    ( /\ status = "running"
      /\ Len(fsCalls) = 1
      /\ fsCalls[1].op = "GetDirectoryListing"
      /\ (fsCalls[1].dir = ".." \/ fsCalls[1].target # 0) )
    => ( /\ m.Cursor = 0
         /\ m.Viewport.YOffset = 0 )

\* C17: in every running state, prompt and help included, a quit key returns
\* the Quit command with the model unchanged and no filesystem call.
C17_QuitFirst ==
    [][ (status = "running" /\ msg' \in QuitKeys)
        => ( /\ m' = m
             /\ cmd' = "Quit"
             /\ fsCalls' = <<>>
             /\ status' = "quit" ) ]_vars

\* A quit key was pressed in a prompt with text typed and the help flag set.
C17_Witness ==
    /\ status = "quit"
    /\ msg \in QuitKeys
    /\ InPrompt(m)
    /\ Focused(m.TextInput)
    /\ Value(m.TextInput) # <<>>
    /\ m.ShowHelp

\* C18: after a WindowSizeMsg, with a non-empty listing, the cursor inside it
\* and a viewport of height >= 1, YOffset <= Cursor <= YOffset + Height - 1.
C18_ResizeRevalidates ==
    ( /\ msg = "WindowSizeMsg"
      /\ Len(m.Files) > 0
      /\ InRange(m)
      /\ m.Viewport.Height >= 1 )
    => ( /\ m.Viewport.YOffset <= m.Cursor
         /\ m.Cursor <= m.Viewport.YOffset + m.Viewport.Height - 1 )

\* C19: YOffset is never negative, and an up/down key changes it by at most
\* one row, and only when the new cursor lies outside the band that was
\* visible before the key.
C19_SmoothScroll ==
    [][ /\ m.Viewport.YOffset >= 0
        /\ m'.Viewport.YOffset >= 0
        /\ (status = "running" /\ msg' \in NavKeys)
           => LET d == m'.Viewport.YOffset - m.Viewport.YOffset
              IN /\ d \in {-1, 0, 1}
                 /\ d # 0 => \/ m'.Cursor < m.Viewport.YOffset
                             \/ m'.Cursor > m.Viewport.YOffset
                                            + m.Viewport.Height - 1 ]_vars

\* An up key has scrolled and the cursor is still more than a row above the
\* band: the offset followed by one line, not to the cursor.
C19_Witness ==
    /\ msg \in UpKeys
    /\ ~Focused(m.TextInput)
    /\ m.Viewport.YOffset > 0
    /\ m.Cursor < m.Viewport.YOffset

\* C20 as stated: from Help mode every key other than quit clears ShowHelp.
C20_AnyKeyLeavesHelp ==
    [][ ( /\ status = "running"
          /\ m.ShowHelp
          /\ msg' \in Keyboard \ QuitKeys )
        => ~m'.ShowHelp ]_vars

\* C20: from Help mode the esc key returns to Browse: ShowHelp is false
\* afterwards, as is every prompt flag, and the input is blurred; every
\* other key leaves ShowHelp true.
C20_EscLeavesHelp ==
    [][ /\ ( /\ status = "running"
             /\ m.ShowHelp
             /\ msg' = "esc" )
           => ( /\ ~m'.ShowHelp
                /\ ~m'.Move /\ ~m'.Rename /\ ~m'.Delete
                /\ ~Focused(m'.TextInput) )
        /\ ( /\ status = "running"
             /\ m.ShowHelp
             /\ msg' \in Keyboard \ {"esc"} )
           => m'.ShowHelp ]_vars

\* esc was pressed with the help text loaded in the viewport.
C20_Witness ==
    /\ msg = "esc"
    /\ status = "running"
    /\ ~m.ShowHelp
    /\ m.Viewport.lines = HelpLines

\* C21: while the input is focused (and the cursor is on an entry, so that
\* no read of Files[Cursor] can fail), every key other than quit, enter and
\* esc goes to the text buffer only: no mode flag changes, the prompt stays
\* open, Cursor and the listing are unchanged and no filesystem call is made.
C21_PromptKeysToBuffer ==
    [][ ( /\ status = "running"
          /\ Focused(m.TextInput)
          /\ InRange(m)
          /\ msg' \in Keyboard \ (QuitKeys \cup {"enter", "esc"}) )
        => ( /\ m'.Move = m.Move
             /\ m'.Rename = m.Rename
             /\ m'.Delete = m.Delete
             /\ m'.ShowHelp = m.ShowHelp
             /\ Focused(m'.TextInput)
             /\ m'.Cursor = m.Cursor
             /\ m'.Files = m.Files
             /\ fsCalls' = <<>>
             /\ status' = "running" ) ]_vars

\* C22: from a prompt that is still open after the step, the entry that
\* Files[Cursor] denotes is the one it denoted before the step.
C22_TargetFixedInPrompt ==
    [][ ( /\ status = "running"
          /\ InPrompt(m)
          /\ InRange(m)
          /\ status' = "running"
          /\ InPrompt(m') )
        => ( /\ InRange(m')
             /\ m'.Files[m'.Cursor + 1] = m.Files[m.Cursor + 1] ) ]_vars

\* C23: handling a message makes no filesystem call: every call is left to
\* a command that Update returns.
C23_NoFilesystemWorkInUpdate ==
    fsCalls = <<>>

\* C24: the input is focused iff exactly one of Move, Rename, Delete is
\* true, and never are two of them true.
C24_FocusIffOnePrompt ==
    LET n == Cardinality({ f \in {"Move", "Rename", "Delete"} : m[f] })
    IN /\ n <= 1
       /\ Focused(m.TextInput) <=> n = 1

\* A prompt over a non-empty listing has just been committed and left.
C24_Witness ==
    /\ msg \in SelectKeys
    /\ Len(fsCalls) = 2
    /\ Len(m.Files) > 0
    /\ ~Focused(m.TextInput)
    /\ ~m.Move /\ ~m.Rename /\ ~m.Delete

\* C25: a mutating filesystem call is made only while handling a commit key
\* with the input focused and the matching flag set: Rename for
\* RenameDirOrFile, Move for MoveDir/CopyFile, Delete and the value "y" for
\* DeleteDirectory/DeleteFile.
C25_MutationOnlyOnCommit ==
    [][ \A i \in CallsOf(fsCalls', MutatingOps) :
          /\ status = "running"
          /\ msg' \in SelectKeys
          /\ Focused(m.TextInput)
          /\ fsCalls'[i].op = "RenameDirOrFile" => m.Rename
          /\ fsCalls'[i].op \in {"MoveDir", "CopyFile"} => m.Move
          /\ fsCalls'[i].op \in DeleteOps
               => m.Delete /\ Value(m.TextInput) = <<"y">> ]_vars

\* A delete has just been made, from a delete prompt answered "y".
C25_Witness ==
    /\ msg \in SelectKeys
    /\ CallsOf(fsCalls, DeleteOps) # {}
    /\ ~m.Delete
    /\ Value(m.TextInput) = <<"y">>

====
